---- MODULE Spec2Model ----
(***************************************************************************)
(* Model of suds_marketo.Client (src/suds_marketo/__init__.py): the        *)
(* class-level name lists, attribute resolution, header signing, call      *)
(* dispatch and the request builders.  Objects made by the suds factory    *)
(* live in a heap (a sequence; a reference is an index, 0 is None) so that *)
(* identity and aliasing are visible.                                      *)
(***************************************************************************)
EXTENDS Integers, Sequences, FiniteSets, TLC

VARIABLES
    suds_types,    \* Client.suds_types: class-level list shared by all instances
    suds_methods,  \* Client.suds_methods: class-level list shared by all instances
    clients,       \* per instance: status, user_id, encryption_key, suds_client
    heap,          \* objects created by suds_client.factory.create
    held,          \* reference the caller keeps from its last attribute access
    resolved,      \* what the caller's last attribute access gave
    callBase,      \* heap length when the current operation started
    clock,         \* datetime.utcnow()
    wire,          \* remote invocations made by the current operation
    outcome,       \* what the caller of the current operation received
    req            \* the current operation and its inputs

vars == <<suds_types, suds_methods, clients, heap, held, resolved, callBase,
          clock, wire, outcome, req>>

(***************************************************************************)
(* Bounds                                                                  *)
(***************************************************************************)
MaxClock == 1
MaxAttrs == 2
MaxLeads == 2

\* Instances that may be constructed (each identity is constructed once).
Clients == {"A", "B"}

(***************************************************************************)
(* Service descriptions (what SudsClient reads from the WSDL)              *)
(***************************************************************************)
MarketoTypes ==
    <<"AuthenticationHeaderInfo", "LeadRecord", "ArrayOfAttribute", "Attribute",
      "LeadKey", "LeadKeyRef", "ArrayOfLeadRecord", "ReqCampSourceType",
      "ArrayOfLeadKey", "ArrayOfKeyList", "ActivityTypeFilter",
      "ArrayOfCustomObj", "CustomObj", "SyncOperationEnum", "ArrayOfMObject",
      "MObject", "TypeAttrib", "ArrayOfAttrib", "Attrib">>

MarketoMethods ==
    <<"getLead", "syncLead", "syncMultipleLeads", "requestCampaign",
      "mergeLeads", "getLeadActivity", "syncCustomObjects", "syncMObjects",
      "describeMObject">>

Range(s) == {s[i] : i \in 1..Len(s)}

Without(s, n) == SelectSeq(s, LAMBDA x : x # n)

\* The published description, and one that does not declare ArrayOfKeyList.
MarketoDescriptions ==
    {[types |-> MarketoTypes, methods |-> MarketoMethods],
     [types |-> Without(MarketoTypes, "ArrayOfKeyList"), methods |-> MarketoMethods]}

\* Names a description may declare that meet the class's own attributes.
CollidingNames == <<"LeadKey", "call_service", "suds_types", "suds_client">>

Restrict(s, S) == SelectSeq(s, LAMBDA x : x \in S)

AnyDescriptions ==
    {[types |-> Restrict(CollidingNames, T), methods |-> Restrict(CollidingNames, M)] :
        T \in SUBSET Range(CollidingNames), M \in SUBSET Range(CollidingNames)}

\* Attributes and methods defined statically on Client.
StaticMembers ==
    {"MARKETO_WSDL", "suds_types", "suds_methods", "soap_endpoint", "user_id",
     "encryption_key", "suds_client", "set_header", "build_lead_record",
     "call_service", "get_lead", "get_lead_IDNUM", "get_lead_by_cookie",
     "sync_lead", "sync_multiple_leads", "request_campaign", "merge_leads",
     "get_lead_activity", "sync_custom_objects", "sync_m_objects",
     "describe_m_objects"}

(***************************************************************************)
(* Objects built by suds_client.factory.create(name)                       *)
(***************************************************************************)
Enums == {"LeadKeyRef", "ReqCampSourceType", "SyncOperationEnum"}

Scalars(name) ==
    CASE name = "AuthenticationHeaderInfo" ->
            {"mktowsUserId", "requestSignature", "requestTimestamp"}
      [] name = "LeadRecord" -> {"Email"}
      [] name = "Attribute" -> {"attrName", "attrType", "attrValue"}
      [] name = "LeadKey" -> {"keyType", "keyValue"}
      [] name = "LeadKeyRef" -> {"EMAIL", "COOKIE", "IDNUM"}
      [] name = "ReqCampSourceType" -> {"MKTOWS", "SALES"}
      [] name = "SyncOperationEnum" -> {"UPSERT", "INSERT", "UPDATE"}
      [] name = "MObject" -> {"type", "id", "createdAt", "updatedAt"}
      [] name = "Attrib" -> {"name", "value"}
      [] OTHER -> {}

RefFields(name) ==
    CASE name = "LeadRecord" -> {"leadAttributeList"}
      [] OTHER -> {}

ListFields(name) ==
    CASE name = "ArrayOfAttribute" -> {"attribute"}
      [] name = "ArrayOfLeadRecord" -> {"leadRecord"}
      [] name = "ArrayOfLeadKey" -> {"leadKey"}
      [] name = "ArrayOfKeyList" -> {"keyList"}
      [] name = "ActivityTypeFilter" -> {"includeTypes", "excludeTypes"}
      [] name = "ArrayOfCustomObj" -> {"customObj"}
      [] name = "CustomObj" -> {"customObjKeyList", "customObjAttributeList"}
      [] name = "ArrayOfMObject" -> {"mObject"}
      [] name = "MObject" -> {"attribList"}
      [] name = "ArrayOfAttrib" -> {"attrib"}
      [] OTHER -> {}

\* A newly built, empty instance.
Obj(name) ==
    [type |-> name,
     f |-> [k \in Scalars(name) |-> IF name \in Enums THEN k ELSE "None"],
     r |-> [k \in RefFields(name) |-> 0],
     l |-> [k \in ListFields(name) |-> <<>>]]

\* Create with one instance kept per type name and handed out again.
CreateCached(h, name) ==
    LET same == {i \in 1..Len(h) : h[i].type = name} IN
    IF same = {} THEN [heap |-> Append(h, Obj(name)), ref |-> Len(h) + 1]
    ELSE [heap |-> h, ref |-> CHOOSE i \in same : TRUE]

\* factory.create builds a new object on every call.  A reference is the
\* position at which the object is appended: the k-th object created from
\* heap h has reference Len(h) + k.
Create(h, name) == [heap |-> Append(h, Obj(name)), ref |-> Len(h) + 1]

New(h, name) == Append(h, Obj(name))

SetF(h, ref, k, v) == [h EXCEPT ![ref].f[k] = v]
SetR(h, ref, k, v) == [h EXCEPT ![ref].r[k] = v]
AppendL(h, ref, k, v) == [h EXCEPT ![ref].l[k] = Append(@, v)]

(***************************************************************************)
(* Client.__getattribute__                                                 *)
(***************************************************************************)
Exempt == {"suds_types", "suds_methods"}

\* Branch with the operation list consulted before the type list.
BranchMethodsFirst(name, types, methods) ==
    IF name \notin Exempt /\ name \in Range(methods) THEN "method"
    ELSE IF name \notin Exempt /\ name \in Range(types) THEN "type"
    ELSE "static"

\* Which branch of __getattribute__ a name takes.
Branch(name, types, methods) ==
    IF name \notin Exempt /\ name \in Range(types) THEN "type"
    ELSE IF name \notin Exempt /\ name \in Range(methods) THEN "method"
    ELSE "static"

\* The first two branches read self.suds_client, which is itself resolved by
\* __getattribute__: when suds_client is a remote name that read never ends.
ResolveKind(name, types, methods) ==
    LET b == Branch(name, types, methods) IN
    IF b = "static"
    THEN IF name \in StaticMembers THEN "static" ELSE "AttributeError"
    ELSE IF Branch("suds_client", types, methods) # "static" THEN "RecursionError"
    ELSE b

\* What self.<name> gives on instance c: the branch taken, or the exception
\* raised (suds raises when the instance's own description lacks the name).
KindOf(c, name) ==
    LET k == ResolveKind(name, suds_types, suds_methods)
        sd == clients[c].suds_client.sd
    IN  IF k = "type" /\ name \notin Range(sd.types) THEN "TypeNotFound"
        ELSE IF k = "method" /\ name \notin Range(sd.methods) THEN "MethodNotFound"
        ELSE k

\* self.<name> on instance c with heap h: the kind of result, the object
\* created when the name is a type, and the heap afterwards.
GetAttribute(h, c, name) ==
    LET k == KindOf(c, name)
        n == Create(h, name)
    IN  IF k = "type" THEN [kind |-> k, ref |-> n.ref, heap |-> n.heap]
        ELSE [kind |-> k, ref |-> 0, heap |-> h]

Failed(kind) == kind \notin {"type", "method", "static"}

(***************************************************************************)
(* Objects no longer referenced are reclaimed: once an operation has       *)
(* returned, only the attached headers and the instance the caller holds   *)
(* stay alive.                                                             *)
(***************************************************************************)
Live == {clients[c].suds_client.soapheaders : c \in Clients} \cup {held}

Rank(ref) == IF ref = 0 THEN 0 ELSE Cardinality({x \in Live \ {0} : x <= ref})

Collected ==
    [i \in 1..Cardinality(Live \ {0}) |->
        heap[CHOOSE x \in Live \ {0} : Rank(x) = i]]

Relocated ==
    [c \in Clients |->
        [clients[c] EXCEPT !.suds_client.soapheaders = Rank(@)]]

NoClient == [status |-> "none", user_id |-> "None", encryption_key |-> "None",
             suds_client |-> [sd |-> [types |-> <<>>, methods |-> <<>>],
                              soapheaders |-> 0]]

NoOutcome == [kind |-> "none", value |-> "None"]

Idle == [op |-> "none", client |-> "None"]

Init ==
    /\ suds_types = <<>>
    /\ suds_methods = <<>>
    /\ clients = [c \in Clients |-> NoClient]
    /\ heap = <<>>
    /\ held = 0
    /\ resolved = [name |-> "None", kind |-> "none"]
    /\ callBase = 0
    /\ clock = 0
    /\ wire = <<>>
    /\ outcome = NoOutcome
    /\ req = Idle

Return(v) == [kind |-> "return", value |-> v]
Raise(e) == [kind |-> "raise", value |-> e]

(***************************************************************************)
(* Client.__init__                                                         *)
(***************************************************************************)
Construct(c, cred, sd) ==
    /\ req = Idle
    /\ clients[c].status = "none"
    /\ LET types1 == suds_types \o sd.types
           \* line 53 and line 55 each read self.suds_client
           read1 == ResolveKind("suds_client", suds_types, suds_methods)
           read2 == ResolveKind("suds_client", types1, suds_methods)
           ok == read1 = "static" /\ read2 = "static"
       IN
       /\ suds_types' = IF read1 = "static" THEN types1 ELSE suds_types
       /\ suds_methods' = IF ok THEN suds_methods \o sd.methods ELSE suds_methods
       /\ clients' = [clients EXCEPT ![c] =
                        [status |-> IF ok THEN "live" ELSE "failed",
                         user_id |-> cred.user_id,
                         encryption_key |-> cred.encryption_key,
                         suds_client |-> [sd |-> sd, soapheaders |-> 0]]]
       /\ outcome' = IF ok THEN Return("Client") ELSE Raise("RecursionError")
    /\ req' = [op |-> "__init__", client |-> c]
    /\ UNCHANGED <<heap, held, resolved, callBase, clock, wire>>

(***************************************************************************)
(* The caller reads client.<name>, and may keep and mutate what it gets    *)
(***************************************************************************)
\* No operation is in progress and instance c has been constructed.
Ready(c) == req = Idle /\ clients[c].status = "live"

GetAttr(c, name) ==
    /\ Ready(c)
    /\ \E g \in {GetAttribute(heap, c, name)} :
       /\ heap' = g.heap
       /\ held' = IF g.kind = "type" THEN g.ref ELSE held
       /\ resolved' = [name |-> name, kind |-> g.kind]
       /\ outcome' = IF Failed(g.kind) THEN Raise(g.kind) ELSE Return(g.kind)
    /\ req' = [op |-> "__getattribute__", client |-> c, prev |-> held]
    /\ UNCHANGED <<suds_types, suds_methods, clients, callBase, clock, wire>>

\* The operation has returned: the caller lets go of the result and of
\* what was built for it.
Discard ==
    /\ req # Idle
    /\ heap' = Collected
    /\ clients' = Relocated
    /\ held' = Rank(held)
    /\ callBase' = Len(Collected)
    /\ wire' = <<>>
    /\ outcome' = NoOutcome
    /\ resolved' = [name |-> "None", kind |-> "none"]
    /\ req' = Idle
    /\ UNCHANGED <<suds_types, suds_methods, clock>>

Tick ==
    /\ req = Idle
    /\ clock < MaxClock
    /\ clock' = clock + 1
    /\ UNCHANGED <<suds_types, suds_methods, clients, heap, held, resolved,
                   callBase, wire, outcome, req>>

(***************************************************************************)
(* sign, Client.set_header, Client.call_service                            *)
(***************************************************************************)
\* hmac.new(key, message, sha1).hexdigest().lower(), as a symbolic digest:
\* equal digests exactly for equal key and message.
sign(message, encryption_key) ==
    "hmac-sha1(" \o encryption_key \o "," \o message \o ")"

\* rfc3339(datetime.utcnow(), utc=True)
rfc3339(t) == "2014-01-27T00:00:0" \o ToString(t) \o "Z"

\* A name read where an object is needed: "" when it resolves to a new
\* instance, else the exception raised at that statement.
TypeErr(c, name) ==
    LET k == KindOf(c, name) IN
    IF k = "type" THEN "" ELSE IF Failed(k) THEN k ELSE "AttributeError"

RECURSIVE FirstErr(_, _)
FirstErr(c, names) ==
    IF names = <<>> THEN ""
    ELSE IF TypeErr(c, Head(names)) # "" THEN TypeErr(c, Head(names))
    ELSE FirstErr(c, Tail(names))

\* set_header signing user id + timestamp instead of timestamp + user id.
set_headerSwapped(h, c) ==
    LET authentication_header == Len(h) + 1
        timestamp == rfc3339(clock)
        h1 == SetF(New(h, "AuthenticationHeaderInfo"), authentication_header,
                   "requestSignature",
                   sign(clients[c].user_id \o timestamp, clients[c].encryption_key))
        h2 == SetF(h1, authentication_header, "mktowsUserId", clients[c].user_id)
    IN  SetF(h2, authentication_header, "requestTimestamp", timestamp)

\* The header object is Len(h) + 1 in the heap returned.
set_header(h, c) ==
    LET authentication_header == Len(h) + 1
        timestamp == rfc3339(clock)
        h1 == SetF(New(h, "AuthenticationHeaderInfo"), authentication_header,
                   "requestSignature",
                   sign(timestamp \o clients[c].user_id, clients[c].encryption_key))
        h2 == SetF(h1, authentication_header, "mktowsUserId", clients[c].user_id)
    IN  SetF(h2, authentication_header, "requestTimestamp", timestamp)

\* The header the instance's suds client currently sends (0: none).
Attached(c) == clients[c].suds_client.soapheaders

\* The remote operation is invoked once; suds returns its reply or raises
\* its fault.
Invoke(c, name, args, header, resp) ==
    [client |-> c, op |-> name, args |-> args, header |-> header, at |-> clock,
     response |-> resp]

Result(h, hdr, w, out) == [heap |-> h, hdr |-> hdr, wire |-> w, outcome |-> out]

\* A statement of the operation raised before call_service was reached.
Raised(h, c, e) == Result(h, Attached(c), <<>>, Raise(e))

RECURSIVE call_service(_, _, _, _, _)

describe_m_objects(h, c, objName, resp) ==
    call_service(h, c, "describeMObject", <<objName>>, resp)

\* call_service invoking the operation a second time when the first faults.
call_serviceRetry(h, c, name, args, resp) ==
    LET e == TypeErr(c, "AuthenticationHeaderInfo")
        header == Len(h) + 1
        h1 == set_header(h, c)
        k == KindOf(c, name)
    IN  IF e # "" THEN Raised(h, c, e)
        ELSE IF Failed(k) THEN Result(h1, header, <<>>, Raise(k))
        ELSE IF k = "method"
        THEN IF resp.kind = "raise"
             THEN Result(h1, header,
                         <<Invoke(c, name, args, header, resp),
                           Invoke(c, name, args, header, Return("result"))>>,
                         Return("result"))
             ELSE Result(h1, header, <<Invoke(c, name, args, header, resp)>>, resp)
        ELSE IF k = "static" /\ name = "describe_m_objects"
        THEN describe_m_objects(h1, c, args[1], resp)
        ELSE Result(GetAttribute(h1, c, name).heap, header, <<>>, Raise("TypeError"))

\* self.__getattribute__(name)(*args): a remote operation is invoked; a
\* created instance or a data attribute is not callable; of the class's own
\* methods, describe_m_objects is the one the callers here pass by name.
call_service(h, c, name, args, resp) ==
    LET e == TypeErr(c, "AuthenticationHeaderInfo")
        header == Len(h) + 1
        h1 == set_header(h, c)
        k == KindOf(c, name)
    IN  IF e # "" THEN Raised(h, c, e)
        ELSE IF Failed(k) THEN Result(h1, header, <<>>, Raise(k))
        ELSE IF k = "method"
        THEN Result(h1, header, <<Invoke(c, name, args, header, resp)>>, resp)
        ELSE IF k = "static" /\ name = "describe_m_objects"
        THEN describe_m_objects(h1, c, args[1], resp)
        ELSE Result(GetAttribute(h1, c, name).heap, header, <<>>, Raise("TypeError"))

(***************************************************************************)
(* Client.build_lead_record and the convenience builders                   *)
(***************************************************************************)
RECURSIVE AppendAttributes(_, _, _)
\* AppendAttributes unpacking each triple as (name, value, type).
AppendAttributesSwapped(h, list, attributes) ==
    IF attributes = <<>> THEN h
    ELSE LET attr == Head(attributes)
             attribute == Len(h) + 1
             h1 == SetF(New(h, "Attribute"), attribute, "attrName", attr[1])
             h2 == SetF(h1, attribute, "attrValue", attr[2])
             h3 == SetF(h2, attribute, "attrType", attr[3])
         IN  AppendAttributes(AppendL(h3, list, "attribute", attribute), list,
                              Tail(attributes))

AppendAttributes(h, list, attributes) ==
    IF attributes = <<>> THEN h
    ELSE LET attr == Head(attributes)
             attribute == Len(h) + 1
             h1 == SetF(New(h, "Attribute"), attribute, "attrName", attr[1])
             h2 == SetF(h1, attribute, "attrType", attr[2])
             h3 == SetF(h2, attribute, "attrValue", attr[3])
         IN  AppendAttributes(AppendL(h3, list, "attribute", attribute), list,
                              Tail(attributes))

\* The exception build_lead_record raises, "" when it returns.
LeadRecordErr(c, attributes) ==
    FirstErr(c, <<"LeadRecord", "ArrayOfAttribute">> \o
                (IF attributes = <<>> THEN <<>> ELSE <<"Attribute">>))

\* The record returned is Len(h) + 1 in the heap returned.
build_lead_record(h, email, attributes) ==
    LET lead_record == Len(h) + 1
        lead_attributes_list == Len(h) + 2
        h1 == SetF(New(h, "LeadRecord"), lead_record, "Email", email)
        h2 == AppendAttributes(New(h1, "ArrayOfAttribute"), lead_attributes_list,
                               attributes)
    IN  SetR(h2, lead_record, "leadAttributeList", lead_attributes_list)

\* A LeadKey (Len(h) + 1) whose keyType is the given member of a newly read
\* LeadKeyRef (Len(h) + 2); "" leaves keyType unset and reads no LeadKeyRef.
KeyWithType(h, member, keyValue) ==
    LET lead_key == Len(h) + 1
        h1 == IF member = "" THEN New(h, "LeadKey")
              ELSE SetF(New(New(h, "LeadKey"), "LeadKeyRef"), lead_key, "keyType",
                        Obj("LeadKeyRef").f[member])
    IN  SetF(h1, lead_key, "keyValue", keyValue)

get_lead(h, c, keyValue, keyType, resp) ==
    LET member == CASE keyType = "Email" -> "EMAIL"
                    [] keyType = "Cookie" -> "COOKIE"
                    [] keyType = "IDNUM" -> "IDNUM"
                    [] OTHER -> ""
        e == FirstErr(c, <<"LeadKey">> \o (IF member = "" THEN <<>> ELSE <<"LeadKeyRef">>))
    IN  IF e # "" THEN Raised(h, c, e)
        ELSE call_service(KeyWithType(h, member, keyValue), c, "getLead",
                          <<Len(h) + 1>>, resp)

get_lead_IDNUM(h, c, num, resp) ==
    LET e == FirstErr(c, <<"LeadKey", "LeadKeyRef">>) IN
    IF e # "" THEN Raised(h, c, e)
    ELSE call_service(KeyWithType(h, "IDNUM", num), c, "getLead", <<Len(h) + 1>>, resp)

get_lead_by_cookie(h, c, cook, resp) ==
    LET e == FirstErr(c, <<"LeadKey", "LeadKeyRef">>) IN
    IF e # "" THEN Raised(h, c, e)
    ELSE call_service(KeyWithType(h, "COOKIE", cook), c, "getLead", <<Len(h) + 1>>, resp)

sync_lead(h, c, email, attributes, return_lead, resp) ==
    LET e == LeadRecordErr(c, attributes) IN
    IF e # "" THEN Raised(h, c, e)
    ELSE call_service(build_lead_record(h, email, attributes), c, "syncLead",
                      <<Len(h) + 1, return_lead>>, resp)

\* The loop of sync_multiple_leads.
RECURSIVE AppendLeadRecords(_, _, _)
AppendLeadRecords(h, list, lead_list) ==
    IF lead_list = <<>> THEN h
    ELSE LET lead == Head(lead_list) IN
         AppendLeadRecords(
            AppendL(build_lead_record(h, lead[1], lead[2]), list, "leadRecord",
                    Len(h) + 1),
            list, Tail(lead_list))

RECURSIVE LeadRecordsErr(_, _)
LeadRecordsErr(c, lead_list) ==
    IF lead_list = <<>> THEN ""
    ELSE IF LeadRecordErr(c, Head(lead_list)[2]) # ""
    THEN LeadRecordErr(c, Head(lead_list)[2])
    ELSE LeadRecordsErr(c, Tail(lead_list))

sync_multiple_leads(h, c, lead_list, dedup_enabled, resp) ==
    LET e == TypeErr(c, "ArrayOfLeadRecord")
        e2 == LeadRecordsErr(c, lead_list)
        lead_record_list == Len(h) + 1
    IN  IF e # "" THEN Raised(h, c, e)
        ELSE IF e2 # "" THEN Raised(h, c, e2)
        ELSE call_service(
                AppendLeadRecords(New(h, "ArrayOfLeadRecord"), lead_record_list,
                                  lead_list),
                c, "syncMultipleLeads", <<lead_record_list, dedup_enabled>>, resp)

RECURSIVE AppendLeadKeys(_, _, _)
AppendLeadKeys(h, list, lead_list) ==
    IF lead_list = <<>> THEN h
    ELSE LET lead == Head(lead_list)
             lead_key == Len(h) + 1
             h1 == SetF(New(h, "LeadKey"), lead_key, "keyType", lead[1])
             h2 == SetF(h1, lead_key, "keyValue", lead[2])
         IN  AppendLeadKeys(AppendL(h2, list, "leadKey", lead_key), list,
                            Tail(lead_list))

\* program_token_list is None (modelled <<>>) by default: subscripting it
\* raises TypeError.  source None reads a ReqCampSourceType first.
request_campaign(h, c, source, campaign_id, lead_list, program_token_list, resp) ==
    LET e == FirstErr(c, (IF source = "None" THEN <<"ReqCampSourceType">> ELSE <<>>)
                         \o <<"ArrayOfLeadKey", "ArrayOfAttribute", "Attribute">>)
        e2 == IF lead_list = <<>> THEN "" ELSE TypeErr(c, "LeadKey")
        b == IF source = "None" THEN Len(h) + 1 ELSE Len(h)
        src == IF source = "None" THEN Obj("ReqCampSourceType").f["MKTOWS"] ELSE source
        lead_list_keys == b + 1
        ptl == b + 2
        pta == b + 3
        h0 == IF source = "None" THEN New(h, "ReqCampSourceType") ELSE h
        h1 == SetF(New(New(New(h0, "ArrayOfLeadKey"), "ArrayOfAttribute"), "Attribute"),
                   pta, "attrName", program_token_list[1])
        h2 == SetF(h1, pta, "attrValue", program_token_list[2])
        h3 == AppendLeadKeys(AppendL(h2, ptl, "attribute", pta), lead_list_keys,
                             lead_list)
    IN  IF e # "" THEN Raised(h, c, e)
        ELSE IF program_token_list = <<>> THEN Raised(h, c, "TypeError")
        ELSE IF e2 # "" THEN Raised(h, c, e2)
        ELSE call_service(h3, c, "requestCampaign",
                          <<src, campaign_id, lead_list_keys, "None", "None", ptl>>,
                          resp)

\* Lines 213-217: the winning key list (Len(h) + 2) holding win (Len(h) + 1).
WinningKeyList(h, winningleadIDnum) ==
    LET win == Len(h) + 1
        winning_lead_key_list == Len(h) + 2
        h1 == SetF(New(h, "Attribute"), win, "attrName", "IDNUM")
        h2 == SetF(h1, win, "attrValue", winningleadIDnum)
    IN  AppendL(New(h2, "ArrayOfAttribute"), winning_lead_key_list, "attribute", win)

\* Lines 219-225, run inside try/except: pass.  lose is Len(h) + 1,
\* losing_lead_key_list Len(h) + 2, attr Len(h) + 3; the statements stop at
\* the first that raises.
LosingKeyList(h, c, losingleadsIDnum) ==
    LET lose == Len(h) + 1
        losing_lead_key_list == Len(h) + 2
        attr == Len(h) + 3
        h1 == SetF(New(h, "Attribute"), lose, "attrName", "IDNUM")
        h2 == SetF(h1, lose, "attrValue", losingleadsIDnum)
        h3 == New(h2, "ArrayOfKeyList")
        h4 == AppendL(New(h3, "ArrayOfAttribute"), losing_lead_key_list, "keyList", attr)
    IN  IF TypeErr(c, "Attribute") # "" THEN h
        ELSE IF TypeErr(c, "ArrayOfKeyList") # "" THEN h2
        ELSE IF TypeErr(c, "ArrayOfAttribute") # "" THEN h3
        ELSE AppendL(h4, attr, "attribute", lose)

\* losing_lead_key_list is bound at line 222; when a statement before that
\* binding raises, line 228 reads an unbound local.
merge_leads(h, c, winningleadIDnum, losingleadsIDnum, resp) ==
    LET e == FirstErr(c, <<"Attribute", "ArrayOfAttribute">>)
        unbound == TypeErr(c, "Attribute") # "" \/ TypeErr(c, "ArrayOfKeyList") # ""
        h1 == WinningKeyList(h, winningleadIDnum)
    IN  IF e # "" THEN Raised(h, c, e)
        ELSE IF unbound THEN Raised(h1, c, "UnboundLocalError")
        ELSE call_service(LosingKeyList(h1, c, losingleadsIDnum), c, "mergeLeads",
                          <<Len(h) + 2, Len(h) + 4>>, resp)

RECURSIVE AppendAll(_, _, _, _)
AppendAll(h, ref, k, values) ==
    IF values = <<>> THEN h
    ELSE AppendAll(AppendL(h, ref, k, Head(values)), ref, k, Tail(values))

\* IncludeTypes with the commented-out EmailDelivered line active.
IncludeTypesDelivered(acttype) ==
    CASE acttype = "Website Activity" -> <<"VisitWebpage", "ClickLink", "FillOutForm">>
      [] acttype = "Email Activity" ->
            <<"SendEmail", "EmailDelivered", "EmailBounced", "UnsubscribeEmail",
              "OpenEmail", "ClickEmail", "OpenSalesEmail", "ClickSalesEmail">>
      [] acttype = "Score" -> <<"ChangeScore">>
      [] acttype = "Interesting Moments" -> <<"InterestingMoment">>
      [] OTHER -> <<>>

\* The activity types appended for each acttype (lines 251-268).
IncludeTypes(acttype) ==
    CASE acttype = "Website Activity" -> <<"VisitWebpage", "ClickLink", "FillOutForm">>
      [] acttype = "Email Activity" ->
            <<"SendEmail", "EmailBounced", "UnsubscribeEmail", "OpenEmail",
              "ClickEmail", "OpenSalesEmail", "ClickSalesEmail">>
      [] acttype = "Score" -> <<"ChangeScore">>
      [] acttype = "Interesting Moments" -> <<"InterestingMoment">>
      [] OTHER -> <<>>

get_lead_activity(h, c, cookie, acttype, resp) ==
    LET e == FirstErr(c, <<"LeadKey", "ActivityTypeFilter">>)
        LeadKey == Len(h) + 1
        ActivityType == Len(h) + 2
        keyType == CASE acttype = "Email Activity" -> "EMAIL"
                     [] acttype \in {"Website Activity", "Interesting Moments", "Score"}
                            -> "COOKIE"
                     [] OTHER -> "None"
        h1 == SetF(New(New(h, "LeadKey"), "ActivityTypeFilter"), LeadKey, "keyType",
                   keyType)
        h2 == SetF(h1, LeadKey, "keyValue", cookie)
    IN  IF e # "" THEN Raised(h, c, e)
        ELSE IF acttype \in {"Website Activity", "Email Activity", "Score",
                             "Interesting Moments"}
        THEN call_service(AppendAll(h2, ActivityType, "includeTypes",
                                    IncludeTypes(acttype)),
                          c, "getLeadActivity", <<LeadKey, ActivityType>>, resp)
        ELSE Result(h2, Attached(c), <<>>, Return("True"))

\* Lines 301-309 and 329-337: a known operation name reads a new
\* SyncOperationEnum and is replaced by its member; anything else is passed on.
KnownOperation(operation) == operation \in {"UPSERT", "INSERT", "UPDATE"}

SyncOperation(operation) ==
    IF KnownOperation(operation) THEN Obj("SyncOperationEnum").f[operation]
    ELSE operation

RECURSIVE AppendPairs(_, _, _, _, _, _, _)
\* AppendPairs inserting each new attribute at the front of the list.
AppendPairsFront(h, ref, k, type, nameField, valueField, pairs) ==
    IF pairs = <<>> THEN h
    ELSE LET e == Head(pairs)
             i == Len(h) + 1
             h1 == SetF(New(h, type), i, nameField, e[1])
             h2 == SetF(h1, i, valueField, e[2])
         IN  AppendPairs([h2 EXCEPT ![ref].l[k] = <<i>> \o @], ref, k, type, nameField,
                         valueField, Tail(pairs))

AppendPairs(h, ref, k, type, nameField, valueField, pairs) ==
    IF pairs = <<>> THEN h
    ELSE LET e == Head(pairs)
             i == Len(h) + 1
             h1 == SetF(New(h, type), i, nameField, e[1])
             h2 == SetF(h1, i, valueField, e[2])
         IN  AppendPairs(AppendL(h2, ref, k, i), ref, k, type, nameField, valueField,
                         Tail(pairs))

sync_custom_objects(h, c, operation, objName, keys, information, resp) ==
    LET e == FirstErr(c, <<"ArrayOfCustomObj", "CustomObj">>
                         \o (IF keys \o information = <<>> THEN <<>> ELSE <<"Attribute">>)
                         \o (IF KnownOperation(operation) THEN <<"SyncOperationEnum">>
                             ELSE <<>>))
        customObjList == Len(h) + 1
        customObj == Len(h) + 2
        h1 == AppendPairs(New(New(h, "ArrayOfCustomObj"), "CustomObj"), customObj,
                          "customObjKeyList", "Attribute", "attrName", "attrValue", keys)
        h2 == AppendPairs(h1, customObj, "customObjAttributeList", "Attribute",
                          "attrName", "attrValue", information)
        h3 == IF KnownOperation(operation) THEN New(h2, "SyncOperationEnum") ELSE h2
    IN  IF e # "" THEN Raised(h, c, e)
        ELSE call_service(AppendL(h3, customObjList, "customObj", customObj), c,
                          "syncCustomObjects",
                          <<objName, customObjList, SyncOperation(operation)>>, resp)

sync_m_objects(h, c, operation, objType, oppinfo, exists, idnum, resp) ==
    LET fills == objType = "OpportunityPersonRole" \/ (objType = "Opportunity" /\ ~exists)
        listed == objType \in {"Opportunity", "OpportunityPersonRole"}
        e == FirstErr(c, (IF KnownOperation(operation) THEN <<"SyncOperationEnum">>
                          ELSE <<>>)
                         \o <<"ArrayOfMObject", "MObject", "TypeAttrib", "ArrayOfAttrib">>
                         \o (IF fills /\ oppinfo # <<>> THEN <<"Attrib">> ELSE <<>>))
        b == IF KnownOperation(operation) THEN Len(h) + 1 ELSE Len(h)
        mObjectList == b + 1
        mObject == b + 2
        h0 == IF KnownOperation(operation) THEN New(h, "SyncOperationEnum") ELSE h
        h1 == New(New(New(New(h0, "ArrayOfMObject"), "MObject"), "TypeAttrib"),
                  "ArrayOfAttrib")
        h2 == IF listed THEN SetF(h1, mObject, "type", objType) ELSE h1
        h3 == IF objType = "Opportunity" /\ exists THEN SetF(h2, mObject, "id", idnum)
              ELSE h2
        h4 == IF objType = "Opportunity"
              THEN SetF(h3, mObject, "createdAt", "2014-01-27T12:38:44-05:00") ELSE h3
        h5 == IF objType = "Opportunity"
              THEN SetF(h4, mObject, "updatedAt", "2014-01-31T12:38:44-05:00") ELSE h4
        h6 == IF fills
              THEN AppendPairs(h5, mObject, "attribList", "Attrib", "name", "value",
                               oppinfo)
              ELSE h5
    IN  IF e # "" THEN Raised(h, c, e)
        ELSE call_service(IF listed THEN AppendL(h6, mObjectList, "mObject", mObject)
                          ELSE h6,
                          c, "syncMObjects", <<mObjectList, SyncOperation(operation)>>,
                          resp)

(***************************************************************************)
(* Operations of a constructed instance, as the caller performs them       *)
(***************************************************************************)
Responses == {Return("result"), Raise("WebFault")}

SeqsUpTo(S, n) == UNION {[1..k -> S] : k \in 0..n}

Operation(c, op, args, result) ==
    \E r \in {result} :
        /\ heap' = r.heap
        /\ clients' = [clients EXCEPT ![c].suds_client.soapheaders = r.hdr]
        /\ wire' = r.wire
        /\ outcome' = r.outcome
        /\ req' = [op |-> op, client |-> c, args |-> args, before |-> Attached(c)]
        /\ UNCHANGED <<suds_types, suds_methods, held, resolved, callBase, clock>>

CallNames == {"getLead", "describeMObject", "describe_m_objects", "LeadKey",
              "user_id", "noSuchName"}

CallService(c) ==
    /\ Ready(c)
    /\ \E name \in CallNames, resp \in Responses :
        Operation(c, "call_service", <<name>>,
                  call_service(heap, c, name, <<"arg">>, resp))

\* client.<operation>(args): the callable __getattribute__ returns is the
\* suds method itself, sent with whatever header is attached.
ResolvedCall(c) ==
    /\ Ready(c)
    /\ \E name \in {"getLead", "syncLead"}, resp \in Responses :
        Operation(c, "resolved_call", <<name>>,
                  IF KindOf(c, name) = "method"
                  THEN Result(heap, Attached(c),
                              <<Invoke(c, name, <<"arg">>, Attached(c), resp)>>, resp)
                  ELSE Raised(GetAttribute(heap, c, name).heap, c,
                              IF Failed(KindOf(c, name)) THEN KindOf(c, name)
                              ELSE "TypeError"))

GetLead(c, keyTypes) ==
    /\ Ready(c)
    /\ \E keyValue \in {"a@b.com"}, keyType \in keyTypes, resp \in Responses :
        Operation(c, "get_lead", <<keyValue, keyType>>,
                  get_lead(heap, c, keyValue, keyType, resp))

GetLeadIDNUM(c) ==
    /\ Ready(c)
    /\ \E resp \in Responses :
        Operation(c, "get_lead_IDNUM", <<"7">>, get_lead_IDNUM(heap, c, "7", resp))

GetLeadByCookie(c) ==
    /\ Ready(c)
    /\ \E resp \in Responses :
        Operation(c, "get_lead_by_cookie", <<"ck">>,
                  get_lead_by_cookie(heap, c, "ck", resp))

SyncLead(c, emails, attrSeqs) ==
    /\ Ready(c)
    /\ \E email \in emails, attributes \in attrSeqs, return_lead \in BOOLEAN,
       resp \in Responses :
        Operation(c, "sync_lead", <<email, attributes, return_lead>>,
                  sync_lead(heap, c, email, attributes, return_lead, resp))

SyncMultipleLeads(c, leadLists) ==
    /\ Ready(c)
    /\ \E lead_list \in leadLists, resp \in Responses :
        Operation(c, "sync_multiple_leads", <<lead_list, TRUE>>,
                  sync_multiple_leads(heap, c, lead_list, TRUE, resp))

RequestCampaign(c, sources, leadLists) ==
    /\ Ready(c)
    /\ \E source \in sources, lead_list \in leadLists,
       program_token_list \in {<<>>, <<"tok", "val">>}, resp \in Responses :
        Operation(c, "request_campaign", <<source, lead_list, program_token_list>>,
                  request_campaign(heap, c, source, "c1", lead_list,
                                   program_token_list, resp))

MergeLeads(c) ==
    /\ Ready(c)
    /\ \E resp \in Responses :
        Operation(c, "merge_leads", <<"1", "2">>,
                  merge_leads(heap, c, "1", "2", resp))

GetLeadActivity(c, acttypes) ==
    /\ Ready(c)
    /\ \E acttype \in acttypes, resp \in Responses :
        Operation(c, "get_lead_activity", <<"ck", acttype>>,
                  get_lead_activity(heap, c, "ck", acttype, resp))

SyncCustomObjects(c, operations, pairSeqs) ==
    /\ Ready(c)
    /\ \E operation \in operations, keys \in pairSeqs, information \in pairSeqs,
       resp \in Responses :
        Operation(c, "sync_custom_objects", <<operation, keys, information>>,
                  sync_custom_objects(heap, c, operation, "shoppingcart", keys,
                                      information, resp))

SyncMObjects(c, operations, objTypes, pairSeqs) ==
    /\ Ready(c)
    /\ \E operation \in operations, objType \in objTypes,
       oppinfo \in pairSeqs, exists \in BOOLEAN, resp \in Responses :
        Operation(c, "sync_m_objects", <<operation, objType, oppinfo, exists>>,
                  sync_m_objects(heap, c, operation, objType, oppinfo, exists,
                                 "42", resp))

DescribeMObjects(c) ==
    /\ Ready(c)
    /\ \E resp \in Responses :
        Operation(c, "describe_m_objects", <<"Opportunity">>,
                  describe_m_objects(heap, c, "Opportunity", resp))

\* The caller changes the instance it holds: sets a field, or appends None
\* to one of its lists.
Mutate ==
    /\ req = Idle
    /\ held # 0
    /\ \E k \in DOMAIN heap[held].f \cup DOMAIN heap[held].l :
        IF k \in DOMAIN heap[held].f
        THEN heap' = SetF(heap, held, k, "x")
        ELSE /\ Len(heap[held].l[k]) < MaxAttrs
             /\ heap' = AppendL(heap, held, k, 0)
    /\ UNCHANGED <<suds_types, suds_methods, clients, held, resolved, callBase, clock,
                   wire, outcome, req>>

(***************************************************************************)
(* Instances over their lifetime: construction, the clock, every operation *)
(***************************************************************************)
CredentialsOf(c) ==
    IF c = "A" THEN [user_id |-> "u1", encryption_key |-> "k1"]
    ELSE [user_id |-> "u2", encryption_key |-> "k2"]

Triples == {<<"FirstName", "string", "Bob">>, <<"LastName", "string", "Lee">>}
NamePairs == {<<"Name", "opp1">>, <<"Amount", "10">>}
Emails == {"a@b.com", "c@d.com"}
ActTypes == {"Website Activity", "Email Activity", "Score", "Interesting Moments",
             "Personal Information", "None", "unknown-category"}

LeadInputs == {<<"a@b.com", <<<<"FirstName", "string", "Bob">>>> >>,
               <<"c@d.com", <<<<"LastName", "string", "Lee">>,
                              <<"FirstName", "string", "Bob">>>> >>,
               <<"a@b.com", <<>> >>}
KeyTypes == {"Email", "Cookie", "IDNUM", "Other"}
ObjTypes == {"Opportunity", "OpportunityPersonRole", "Lead"}
OneTriple == <<<<"FirstName", "string", "Bob">>>>
OnePair == <<<<"Name", "opp1">>>>

Next ==
    \/ \E c \in Clients, sd \in MarketoDescriptions : Construct(c, CredentialsOf(c), sd)
    \/ Tick
    \/ Discard
    \/ \E c \in Clients :
        \/ CallService(c)
        \/ ResolvedCall(c)
        \/ GetLead(c, {"Email"})
        \/ GetLeadIDNUM(c)
        \/ GetLeadByCookie(c)
        \/ SyncLead(c, {"a@b.com"}, {OneTriple})
        \/ SyncMultipleLeads(c, {<<<<"a@b.com", OneTriple>>>>})
        \/ RequestCampaign(c, {"None"}, {<<>>})
        \/ MergeLeads(c)
        \/ GetLeadActivity(c, {"Score", "None"})
        \/ SyncCustomObjects(c, {"UPSERT"}, {OnePair})
        \/ SyncMObjects(c, {"UPSERT"}, {"Opportunity"}, {OnePair})
        \/ DescribeMObjects(c)

Spec == Init /\ [][Next]_vars

(***************************************************************************)
(* One instance and the requests it builds, over all inputs                *)
(***************************************************************************)
NextShape ==
    \/ \E sd \in MarketoDescriptions : Construct("A", CredentialsOf("A"), sd)
    \/ Discard
    \/ GetLead("A", KeyTypes)
    \/ SyncLead("A", Emails, SeqsUpTo(Triples, MaxAttrs))
    \/ SyncMultipleLeads("A", SeqsUpTo(LeadInputs, MaxLeads))
    \/ RequestCampaign("A", {"None", "SALES"}, {<<>>, <<<<"EMAIL", "a@b.com">>>>})
    \/ GetLeadActivity("A", ActTypes)
    \/ SyncCustomObjects("A", {"UPSERT", "MERGE"}, SeqsUpTo(NamePairs, MaxAttrs))
    \/ SyncMObjects("A", {"UPSERT", "INSERT", "MERGE"}, ObjTypes,
                    SeqsUpTo(NamePairs, MaxAttrs))

SpecShape == Init /\ [][NextShape]_vars

(***************************************************************************)
(* One instance whose caller reads attributes, keeps and mutates them      *)
(***************************************************************************)
AccessNames == {"Attribute", "ArrayOfAttribute", "LeadRecord", "getLead", "user_id",
                "noSuchName"}

NextHold ==
    \/ \E sd \in MarketoDescriptions : Construct("A", CredentialsOf("A"), sd)
    \/ \E name \in AccessNames : GetAttr("A", name)
    \/ Mutate
    \/ Discard
    \/ SyncLead("A", {"a@b.com"}, SeqsUpTo(Triples, MaxAttrs))
    \/ SyncMultipleLeads("A", SeqsUpTo(LeadInputs, MaxLeads))
    \/ MergeLeads("A")
    \/ SyncMObjects("A", {"UPSERT"}, {"Opportunity"}, SeqsUpTo(NamePairs, MaxAttrs))

SpecHold == Init /\ [][NextHold]_vars

(***************************************************************************)
(* Resolution against arbitrary service descriptions                       *)
(***************************************************************************)
ResolveNames == Range(CollidingNames) \cup {"suds_methods", "user_id", "noSuchName"}

\* Descriptions a second instance may be constructed from.
OtherDescriptions ==
    {[types |-> <<"call_service">>, methods |-> <<"LeadKey">>],
     [types |-> <<"suds_client">>, methods |-> <<>>]}

NextResolve ==
    \/ \E sd \in AnyDescriptions : Construct("A", CredentialsOf("A"), sd)
    \/ \E sd \in OtherDescriptions : Construct("B", CredentialsOf("B"), sd)
    \/ \E c \in Clients, name \in ResolveNames : GetAttr(c, name)
    \/ Discard

SpecResolve == Init /\ [][NextResolve]_vars

(***************************************************************************)
(* Properties                                                              *)
(***************************************************************************)
BuilderOps ==
    {"call_service", "get_lead", "get_lead_IDNUM", "get_lead_by_cookie", "sync_lead",
     "sync_multiple_leads", "request_campaign", "merge_leads", "get_lead_activity",
     "sync_custom_objects", "sync_m_objects", "describe_m_objects"}

\* Objects the current operation has created.
Built == (callBase + 1)..Len(heap)

\* C1: every remote invocation, also one made through a callable obtained
\* by reading an operation name from the instance, carries a header that
\* was built and attached within the same call: never no header, never the
\* header of an earlier call.
FreshHeaderOnEveryInvocation ==
    \A i \in 1..Len(wire) :
        /\ wire[i].header \in Built
        /\ wire[i].header = Attached(wire[i].client)
        /\ heap[wire[i].header].f["requestTimestamp"] = rfc3339(wire[i].at)

\* The priority the lookup follows: type, then operation, then static.
Priority(name) ==
    IF name \in Range(suds_types) THEN "type"
    ELSE IF name \in Range(suds_methods) THEN "method"
    ELSE "static"

Expected(c, name) ==
    LET own == clients[c].suds_client.sd
        looping == "suds_client" \in Range(suds_types) \cup Range(suds_methods)
    IN  IF name \in {"suds_types", "suds_methods"} THEN "static"
        ELSE IF Priority(name) = "type"
        THEN IF looping THEN "RecursionError"
             ELSE IF name \in Range(own.types) THEN "type" ELSE "TypeNotFound"
        ELSE IF Priority(name) = "method"
        THEN IF looping THEN "RecursionError"
             ELSE IF name \in Range(own.methods) THEN "method" ELSE "MethodNotFound"
        ELSE IF name \in StaticMembers THEN "static" ELSE "AttributeError"

RefLists(o) == DOMAIN o.l \ {"includeTypes", "excludeTypes"}

\* C3: reading a type name gives an instance that did not exist before the
\* read and is empty whatever was done to instances obtained earlier; within
\* one builder call no object is appended twice and every element of a list
\* built by the call was created by that call.
FreshInstances ==
    /\ (req.op = "__getattribute__" /\ resolved.kind = "type") =>
          /\ held \in Built
          /\ held # req.prev
          /\ heap[held] = Obj(resolved.name)
    /\ req.op \in BuilderOps =>
          \A i \in Built : \A k \in RefLists(heap[i]) :
              LET s == heap[i].l[k] IN
              /\ \A a \in 1..Len(s) : s[a] \in Built
              /\ \A a, b \in 1..Len(s) : a # b => s[a] # s[b]

FreshInstancesWitness ==
    /\ req.op = "__getattribute__"
    /\ resolved.kind = "type"
    /\ req.prev # 0
    /\ heap[req.prev].type = resolved.name
    /\ heap[req.prev] # Obj(resolved.name)

\* C4: once an instance is constructed, no later step, the construction of
\* another instance included, changes the type-name list or operation-name
\* list it consults, or its credentials.
DescriptionReadOnly ==
    [][\A c \in Clients :
          clients[c].status = "live" =>
              /\ suds_types' = suds_types
              /\ suds_methods' = suds_methods
              /\ clients'[c].user_id = clients[c].user_id
              /\ clients'[c].encryption_key = clients[c].encryption_key]_vars

\* C5: whatever step of building the key lists fails, merge_leads raises no
\* error of its own and mergeLeads is still dispatched, so that the caller
\* receives what the remote operation produced.
MergeLeadsAlwaysDispatches ==
    req.op = "merge_leads" =>
        /\ Len(wire) = 1
        /\ wire[1].op = "mergeLeads"
        /\ outcome = wire[1].response

\* C6: the attached header's signature is sign(T + U, K) for the T and U
\* stored in the same header and the instance's key K, U is the instance's
\* user id, and no header field holds K.
HeaderConsistent ==
    \A c \in Clients :
        Attached(c) # 0 =>
            LET hd == heap[Attached(c)] IN
            /\ hd.type = "AuthenticationHeaderInfo"
            /\ hd.f["requestSignature"] =
                  sign(hd.f["requestTimestamp"] \o hd.f["mktowsUserId"],
                       clients[c].encryption_key)
            /\ hd.f["mktowsUserId"] = clients[c].user_id
            /\ \A k \in DOMAIN hd.f : hd.f[k] # clients[c].encryption_key

HeaderConsistentWitness ==
    /\ \A c \in Clients : Attached(c) # 0
    /\ \E c \in Clients : heap[Attached(c)].f["requestTimestamp"] = rfc3339(0)
    /\ \E c \in Clients : heap[Attached(c)].f["requestTimestamp"] # rfc3339(0)

\* The lookup table of the glossary.
TokenTable ==
    [c \in {"Website Activity", "Email Activity", "Score", "Interesting Moments"} |->
        CASE c = "Website Activity" -> {"VisitWebpage", "ClickLink", "FillOutForm"}
          [] c = "Email Activity" ->
                {"SendEmail", "EmailBounced", "UnsubscribeEmail", "OpenEmail",
                 "ClickEmail", "OpenSalesEmail", "ClickSalesEmail"}
          [] c = "Score" -> {"ChangeScore"}
          [] c = "Interesting Moments" -> {"InterestingMoment"}]

\* C7: for the four categories of the table get_lead_activity dispatches
\* getLeadActivity with a filter holding exactly that category's tokens,
\* each once; for any other category it returns True, builds and attaches
\* no header and invokes nothing.
ActivityTokens ==
    req.op = "get_lead_activity" =>
        IF req.args[2] \in DOMAIN TokenTable
        THEN /\ Len(wire) = 1
             /\ wire[1].op = "getLeadActivity"
             /\ LET filter == heap[wire[1].args[2]] IN
                /\ filter.type = "ActivityTypeFilter"
                /\ Range(filter.l["includeTypes"]) = TokenTable[req.args[2]]
                /\ Len(filter.l["includeTypes"]) = Cardinality(TokenTable[req.args[2]])
                /\ filter.l["excludeTypes"] = <<>>
        ELSE /\ outcome = Return("True")
             /\ wire = <<>>
             /\ Attached(req.client) = req.before
             /\ \A i \in Built : heap[i].type # "AuthenticationHeaderInfo"

ActivityTokensWitness ==
    /\ req.op = "get_lead_activity"
    /\ req.args[2] = "Email Activity"
    /\ Len(wire) = 1
    /\ Len(heap[wire[1].args[2]].l["includeTypes"]) = 7

\* C8: a call of call_service or of a builder invokes at most one remote
\* operation, and when it invokes one the caller receives exactly that
\* invocation's response or fault; a remote result reaches the caller only
\* from an invocation.
SingleInvocationPropagated ==
    req.op \in BuilderOps =>
        /\ Len(wire) <= 1
        /\ Len(wire) = 1 => outcome = wire[1].response
        /\ Len(wire) = 0 => outcome \notin Responses

SingleInvocationPropagatedWitness ==
    /\ req.op = "merge_leads"
    /\ Len(wire) = 1
    /\ outcome = Raise("WebFault")

\* The record at ref is a LeadRecord with the given email whose attribute
\* list is the given triples, one Attribute each, in order.
IsLeadRecord(ref, email, attributes) ==
    /\ heap[ref].type = "LeadRecord"
    /\ heap[ref].f["Email"] = email
    /\ LET list == heap[heap[ref].r["leadAttributeList"]] IN
       /\ list.type = "ArrayOfAttribute"
       /\ Len(list.l["attribute"]) = Len(attributes)
       /\ \A i \in 1..Len(attributes) :
             /\ heap[list.l["attribute"][i]].type = "Attribute"
             /\ heap[list.l["attribute"][i]].f =
                   [attrName |-> attributes[i][1], attrType |-> attributes[i][2],
                    attrValue |-> attributes[i][3]]

\* C9: sync_lead dispatches syncLead with a LeadRecord carrying the given
\* email and exactly the input triples in input order; sync_multiple_leads
\* dispatches syncMultipleLeads with one such record per input pair, in
\* input order.
LeadRecordShape ==
    /\ req.op = "sync_lead" =>
          /\ Len(wire) = 1
          /\ wire[1].op = "syncLead"
          /\ wire[1].args[2] = req.args[3]
          /\ IsLeadRecord(wire[1].args[1], req.args[1], req.args[2])
    /\ req.op = "sync_multiple_leads" =>
          /\ Len(wire) = 1
          /\ wire[1].op = "syncMultipleLeads"
          /\ LET list == heap[wire[1].args[1]] IN
             /\ list.type = "ArrayOfLeadRecord"
             /\ Len(list.l["leadRecord"]) = Len(req.args[1])
             /\ \A i \in 1..Len(req.args[1]) :
                   IsLeadRecord(list.l["leadRecord"][i], req.args[1][i][1],
                                req.args[1][i][2])

LeadRecordShapeWitness ==
    /\ req.op = "sync_multiple_leads"
    /\ Len(wire) = 1
    /\ Len(req.args[1]) = 2
    /\ Len(req.args[1][1][2]) = 2
    /\ req.args[1][1] # req.args[1][2]

\* C10: sync_m_objects for an Opportunity that does not exist dispatches
\* syncMObjects with a list of exactly one MObject of type Opportunity whose
\* attribute list has one Attrib per pair of oppinfo, with that pair's name
\* and value, in input order.
OpportunityShape ==
    (req.op = "sync_m_objects" /\ req.args[2] = "Opportunity" /\ ~req.args[4]) =>
        /\ Len(wire) = 1
        /\ wire[1].op = "syncMObjects"
        /\ LET list == heap[wire[1].args[1]] IN
           /\ list.type = "ArrayOfMObject"
           /\ Len(list.l["mObject"]) = 1
           /\ LET m == heap[list.l["mObject"][1]] IN
              /\ m.type = "MObject"
              /\ m.f["type"] = "Opportunity"
              /\ Len(m.l["attribList"]) = Len(req.args[3])
              /\ \A i \in 1..Len(req.args[3]) :
                    /\ heap[m.l["attribList"][i]].type = "Attrib"
                    /\ heap[m.l["attribList"][i]].f =
                          [name |-> req.args[3][i][1], value |-> req.args[3][i][2]]

OpportunityShapeWitness ==
    /\ req.op = "sync_m_objects"
    /\ req.args[2] = "Opportunity"
    /\ ~req.args[4]
    /\ Len(wire) = 1
    /\ Len(req.args[3]) = 2
    /\ req.args[3][1] # req.args[3][2]

====
